---- MODULE Spec2Model ----
(***************************************************************************)
(* Model of kokoro-tts-server.py: the KokoroTTSServer read/dispatch loop,  *)
(* the speak() synthesis + player fallback, and the shutdown handler.      *)
(*                                                                         *)
(* Text is modelled as sequences of one-character strings so that          *)
(* str.strip, str.startswith, slicing and float() are computed, not        *)
(* assumed.  stdout and the temporary-file directory are taken to be       *)
(* reliable (print and os.unlink do not raise).                            *)
(***************************************************************************)
EXTENDS Integers, Sequences, FiniteSets, TLC

\* ------------------------------------------------------------------ bounds
\* longest input stream drawn freely from Lines (Scenarios are added on top)
MaxLines == 2

\* ------------------------------------------------------------ text helpers
Whitespace == {" ", "\t", "\n"}

Digits == {"0", "1", "2", "3", "4", "5", "6", "7", "8", "9"}

DigitVal(c) ==
    CASE c = "0" -> 0 [] c = "1" -> 1 [] c = "2" -> 2 [] c = "3" -> 3
      [] c = "4" -> 4 [] c = "5" -> 5 [] c = "6" -> 6 [] c = "7" -> 7
      [] c = "8" -> 8 [] c = "9" -> 9

RECURSIVE lstrip(_)
lstrip(s) ==
    IF s # <<>> /\ Head(s) \in Whitespace THEN lstrip(Tail(s)) ELSE s

RECURSIVE rstrip(_)
rstrip(s) ==
    IF s # <<>> /\ s[Len(s)] \in Whitespace
    THEN rstrip(SubSeq(s, 1, Len(s) - 1))
    ELSE s

\* str.strip()
strip(s) == rstrip(lstrip(s))

\* str.startswith(p)
startswith(s, p) == Len(s) >= Len(p) /\ SubSeq(s, 1, Len(p)) = p

\* s[6:]
slice6(s) == SubSeq(s, 7, Len(s))

\* ------------------------------------------------------------ float(token)
\* The decimal subset of Python's float grammar: [sign] digits [. digits],
\* with at least one digit.  Values are exact decimals num * 10^-exp,
\* normalised so that equal numbers are equal records (1.50 = 1.5, -0 = 0).
CountDots(s) == Cardinality({i \in DOMAIN s : s[i] = "."})

Unsigned(tok) ==
    IF tok # <<>> /\ Head(tok) \in {"+", "-"} THEN Tail(tok) ELSE tok

IsNumeric(tok) ==
    LET b == Unsigned(tok) IN
      /\ \A i \in DOMAIN b : b[i] \in Digits \cup {"."}
      /\ CountDots(b) <= 1
      /\ \E i \in DOMAIN b : b[i] \in Digits

RECURSIVE DigitsValue(_)
DigitsValue(s) ==
    IF s = <<>> THEN 0
    ELSE 10 * DigitsValue(SubSeq(s, 1, Len(s) - 1)) + DigitVal(s[Len(s)])

RECURSIVE Normalise(_)
Normalise(v) ==
    IF v.exp > 0 /\ v.num % 10 = 0
    THEN Normalise([num |-> v.num \div 10, exp |-> v.exp - 1])
    ELSE v

ParseFloat(tok) ==
    LET b      == Unsigned(tok)
        dot    == IF CountDots(b) = 0 THEN Len(b) + 1
                  ELSE CHOOSE i \in DOMAIN b : b[i] = "."
        whole  == SubSeq(b, 1, dot - 1)
        frac   == SubSeq(b, dot + 1, Len(b))
        mag    == DigitsValue(whole \o frac)
        signed == IF tok # <<>> /\ Head(tok) = "-" THEN 0 - mag ELSE mag
    IN  Normalise([num |-> signed, exp |-> Len(frac)])

\* ------------------------------------------------------------- vocabulary
SPEAK_ == <<"S", "P", "E", "A", "K", ":">>
VOICE_ == <<"V", "O", "I", "C", "E", ":">>
SPEED_ == <<"S", "P", "E", "E", "D", ":">>
QUIT_  == <<"Q", "U", "I", "T">>

af_bella == <<"a", "f", "_", "b", "e", "l", "l", "a">>
am_adam  == <<"a", "m", "_", "a", "d", "a", "m">>
nonexistent == <<"z", "z">>

default_voice == af_bella

default_speed == [num |-> 1, exp |-> 0]

\* identifiers a voices file may hold, and the voice sets the Synthesizer
\* may expose after loading it
VoiceUniverse == {af_bella, am_adam}
VoiceSets == SUBSET VoiceUniverse

hi == <<"h", "i">>

\* input lines as readline() returns them (newline included)
NL(s) == s \o <<"\n">>

Lines ==
    { NL(<<" ">>),
      NL(<<" ">> \o SPEAK_ \o <<" ">> \o hi \o <<" ">>),
      NL(<<"s", "p", "e", "a", "k", ":">> \o hi),
      NL(VOICE_ \o af_bella),
      NL(VOICE_ \o <<" ">> \o am_adam \o <<" ">>),
      NL(VOICE_ \o nonexistent),
      NL(SPEED_ \o <<"1", ".", "5">>),
      NL(SPEED_ \o <<"a", "b", "c">>),
      NL(SPEED_ \o <<"-", "1">>),
      NL(QUIT_) }

\* longer streams, among them the end-to-end scenarios
Scenarios ==
    { << NL(SPEAK_ \o hi), NL(VOICE_ \o af_bella),
         NL(SPEED_ \o <<"1", ".", "5">>), NL(QUIT_) >>,
      << NL(VOICE_ \o am_adam), NL(VOICE_ \o nonexistent),
         NL(SPEED_ \o <<"a", "b", "c">>), NL(hi) >>,
      << NL(QUIT_ \o <<" ">> \o <<"n", "o", "w">>), NL(QUIT_), NL(hi) >>,
      << NL(<<"v", "o", "i", "c", "e", ":">> \o am_adam), NL(<<>>),
         NL(SPEED_), NL(VOICE_) >>,
      << NL(SPEED_ \o <<"0">>), NL(SPEED_ \o <<" ", "2", ".", "5", "0">>),
         NL(<<"q", "u", "i", "t">>), NL(QUIT_) >> }

RECURSIVE SeqsUpTo(_, _)
SeqsUpTo(S, n) ==
    IF n = 0 THEN { <<>> }
    ELSE LET shorter == SeqsUpTo(S, n - 1) IN
         shorter \cup { Append(s, x) : s \in {t \in shorter : Len(t) = n - 1}, x \in S }

Streams == SeqsUpTo(Lines, MaxLines) \cup Scenarios

\* audio_players, in list order
audio_players == << "pw-play", "paplay", "aplay" >>

\* what one subprocess.run call can do: return with exit status zero or
\* non-zero, raise FileNotFoundError, raise TimeoutExpired, or raise some
\* other OSError (e.g. PermissionError)
PlayerOutcomes == {"zero", "nonzero", "notfound", "timeout", "oserror"}

\* ------------------------------------------------------------------ state
VARIABLES
    voices,      \* kokoro.voices: the known voice set (fixed after load)
    voice,       \* self.voice
    speed,       \* self.speed
    running,     \* self.running
    stdin,       \* the whole input stream
    pos,         \* number of lines readline() has returned
    stdout,      \* lines printed so far
    pc,          \* control point of the process
    line,        \* run(): the stripped current line
    resp,        \* run(): the token about to be printed
    text,        \* speak(): argument
    tmp,         \* speak(): state of this call's temporary file
    idx,         \* speak(): index of the next candidate in audio_players
    result,      \* speak(): None, or the returncode class of the last
                 \*          subprocess.run that returned
    ret,         \* speak(): return value ("none" until it returns)
    files,       \* number of temporary .wav files on disk
    attempts,    \* history: <<player, outcome>> of this speak() call
    synthCalls,  \* history: every kokoro.create call [text, voice, speed]
    handled      \* history: [line, resp] for every line fully handled

vars == << voices, voice, speed, running, stdin, pos, stdout, pc, line, resp,
           text, tmp, idx, result, ret, files, attempts, synthCalls, handled >>

session == << voice, speed, running >>
speakLocals == << text, tmp, idx, result, ret, attempts >>

Init ==
    /\ voices \in VoiceSets
    /\ voice = default_voice
    /\ speed = default_speed
    /\ running = TRUE
    /\ stdin \in Streams
    /\ pos = 0
    /\ stdout = <<>>
    /\ pc = "loop"
    /\ line = <<>>
    /\ resp = "none"
    /\ text = <<>>
    /\ tmp = "none"
    /\ idx = 1
    /\ result = "None"
    /\ ret = "none"
    /\ files = 0
    /\ attempts = <<>>
    /\ synthCalls = <<>>
    /\ handled = <<>>

\* --------------------------------------------------------------- dispatch
\* the if/elif chain of run(), in its order
IsSpeak(l) == startswith(l, SPEAK_)
IsVoice(l) == ~IsSpeak(l) /\ startswith(l, VOICE_)
IsSpeed(l) == ~IsSpeak(l) /\ ~IsVoice(l) /\ startswith(l, SPEED_)
\* variant: QUIT matched as a prefix, like the three commands before it
IsQuit_Prefix(l) ==
    ~IsSpeak(l) /\ ~IsVoice(l) /\ ~IsSpeed(l) /\ startswith(l, QUIT_)

IsQuit(l)  == ~IsSpeak(l) /\ ~IsVoice(l) /\ ~IsSpeed(l) /\ l = QUIT_
IsDefault(l) == ~IsSpeak(l) /\ ~IsVoice(l) /\ ~IsSpeed(l) /\ ~IsQuit(l)

\* variant: membership tested against every identifier a voices file may hold
VoiceKnown_Any(new_voice) == new_voice \in VoiceUniverse

\* new_voice in self.kokoro.voices
VoiceKnown(new_voice) == new_voice \in voices

\* variant: the status of speak() is surfaced to the caller
SpeakResponse_Status(r) == IF r = "True" THEN "OK" ELSE "ERROR"

\* the token printed after self.speak(...) returns r
SpeakResponse(r) == "OK"

\* variant: only a recorded non-zero exit counts as failure
ReturnValue_NoneIsSuccess(r) == IF r = "nonzero" THEN "False" ELSE "True"

\* speak(): value returned once the player loop is over and the file is
\* unlinked; result None makes result.returncode raise AttributeError,
\* which the except clause turns into False
ReturnValue(r) == IF r = "zero" THEN "True" ELSE "False"

\* speak(): a fresh call frame
EnterSpeak(t) ==
    /\ text' = t
    /\ tmp' = "none"
    /\ idx' = 1
    /\ result' = "None"
    /\ ret' = "none"
    /\ attempts' = <<>>

\* ---------------------------------------------------------------- actions
\* line = sys.stdin.readline(); a line was available; line = line.strip()
ReadLine ==
    /\ pc = "loop"
    /\ running
    /\ pos < Len(stdin)
    /\ pos' = pos + 1
    /\ line' = strip(stdin[pos + 1])
    /\ pc' = "dispatch"
    /\ UNCHANGED << voices, session, stdin, stdout, resp, speakLocals, files,
                    synthCalls, handled >>

\* readline() returned '' : EOF, break
ReadEOF ==
    /\ pc = "loop"
    /\ running
    /\ pos = Len(stdin)
    /\ pc' = "done"
    /\ UNCHANGED << voices, session, stdin, pos, stdout, line, resp,
                    speakLocals, files, synthCalls, handled >>

\* variant: no empty-line test, the line falls through to the default branch
SkipEmpty_Speaks ==
    /\ pc = "dispatch"
    /\ line = <<>>
    /\ EnterSpeak(line)
    /\ pc' = "create"
    /\ UNCHANGED << voices, session, stdin, pos, stdout, line, resp, files,
                    synthCalls, handled >>

\* if not line: continue
SkipEmpty ==
    /\ pc = "dispatch"
    /\ line = <<>>
    /\ pc' = "loop"
    /\ handled' = Append(handled, [line |-> line, resp |-> "none"])
    /\ UNCHANGED << voices, session, stdin, pos, stdout, line, resp,
                    speakLocals, files, synthCalls >>

\* SPEAK:<text> : text = line[6:].strip(); self.speak(text)
SpeakCmd ==
    /\ pc = "dispatch"
    /\ line # <<>>
    /\ IsSpeak(line)
    /\ EnterSpeak(strip(slice6(line)))
    /\ pc' = "create"
    /\ UNCHANGED << voices, session, stdin, pos, stdout, line, resp, files,
                    synthCalls, handled >>

\* else: self.speak(line)
SpeakDefault ==
    /\ pc = "dispatch"
    /\ line # <<>>
    /\ IsDefault(line)
    /\ EnterSpeak(line)
    /\ pc' = "create"
    /\ UNCHANGED << voices, session, stdin, pos, stdout, line, resp, files,
                    synthCalls, handled >>

\* variant: the voice is assigned before it is tested
SetVoice_AssignsFirst ==
    /\ pc = "dispatch"
    /\ line # <<>>
    /\ IsVoice(line)
    /\ LET new_voice == strip(slice6(line)) IN
         /\ voice' = new_voice
         /\ resp' = IF VoiceKnown(new_voice) THEN "OK" ELSE "ERROR"
    /\ pc' = "respond"
    /\ UNCHANGED << voices, speed, running, stdin, pos, stdout, line,
                    speakLocals, files, synthCalls, handled >>

\* variant: an accepted voice change also resets the speed
SetVoice_ResetsSpeed ==
    /\ pc = "dispatch"
    /\ line # <<>>
    /\ IsVoice(line)
    /\ LET new_voice == strip(slice6(line)) IN
         IF VoiceKnown(new_voice)
         THEN voice' = new_voice /\ speed' = default_speed /\ resp' = "OK"
         ELSE voice' = voice /\ speed' = speed /\ resp' = "ERROR"
    /\ pc' = "respond"
    /\ UNCHANGED << voices, running, stdin, pos, stdout, line,
                    speakLocals, files, synthCalls, handled >>

\* VOICE:<name>
SetVoice ==
    /\ pc = "dispatch"
    /\ line # <<>>
    /\ IsVoice(line)
    /\ LET new_voice == strip(slice6(line)) IN
         IF VoiceKnown(new_voice)
         THEN voice' = new_voice /\ resp' = "OK"
         ELSE voice' = voice /\ resp' = "ERROR"
    /\ pc' = "respond"
    /\ UNCHANGED << voices, speed, running, stdin, pos, stdout, line,
                    speakLocals, files, synthCalls, handled >>

\* variant: a lenient parse that yields 0 for a non-numeric token
SetSpeed_Lenient ==
    /\ pc = "dispatch"
    /\ line # <<>>
    /\ IsSpeed(line)
    /\ LET token == strip(slice6(line)) IN
         IF IsNumeric(token)
         THEN speed' = ParseFloat(token) /\ resp' = "OK"
         ELSE speed' = [num |-> 0, exp |-> 0] /\ resp' = "OK"
    /\ pc' = "respond"
    /\ UNCHANGED << voices, voice, running, stdin, pos, stdout, line,
                    speakLocals, files, synthCalls, handled >>

\* variant: the ValueError of float() is not caught and ends the process
SetSpeed_Crashes ==
    /\ pc = "dispatch"
    /\ line # <<>>
    /\ IsSpeed(line)
    /\ LET token == strip(slice6(line)) IN
         IF IsNumeric(token)
         THEN speed' = ParseFloat(token) /\ resp' = "OK" /\ pc' = "respond"
         ELSE speed' = speed /\ resp' = resp /\ pc' = "exited"
    /\ UNCHANGED << voices, voice, running, stdin, pos, stdout, line,
                    speakLocals, files, synthCalls, handled >>

\* variant: a value that is not positive is rejected like a parse error
SetSpeed_RejectsNonPositive ==
    /\ pc = "dispatch"
    /\ line # <<>>
    /\ IsSpeed(line)
    /\ LET token == strip(slice6(line)) IN
         IF IsNumeric(token) /\ ParseFloat(token).num > 0
         THEN speed' = ParseFloat(token) /\ resp' = "OK"
         ELSE speed' = speed /\ resp' = "ERROR"
    /\ pc' = "respond"
    /\ UNCHANGED << voices, voice, running, stdin, pos, stdout, line,
                    speakLocals, files, synthCalls, handled >>

\* SPEED:<token> : float() raises ValueError on a non-numeric token and
\* the except clause of run() prints ERROR
SetSpeed ==
    /\ pc = "dispatch"
    /\ line # <<>>
    /\ IsSpeed(line)
    /\ LET token == strip(slice6(line)) IN
         IF IsNumeric(token)
         THEN speed' = ParseFloat(token) /\ resp' = "OK"
         ELSE speed' = speed /\ resp' = "ERROR"
    /\ pc' = "respond"
    /\ UNCHANGED << voices, voice, running, stdin, pos, stdout, line,
                    speakLocals, files, synthCalls, handled >>

\* variant: QUIT is acknowledged before the loop ends
Quit_Replies ==
    /\ pc = "dispatch"
    /\ line # <<>>
    /\ IsQuit(line)
    /\ pc' = "done"
    /\ stdout' = Append(stdout, "OK")
    /\ handled' = Append(handled, [line |-> line, resp |-> "OK"])
    /\ UNCHANGED << voices, session, stdin, pos, line, resp, speakLocals,
                    files, synthCalls >>

\* variant: continue instead of break
Quit_Continues ==
    /\ pc = "dispatch"
    /\ line # <<>>
    /\ IsQuit(line)
    /\ pc' = "loop"
    /\ handled' = Append(handled, [line |-> line, resp |-> "none"])
    /\ UNCHANGED << voices, session, stdin, pos, stdout, line, resp,
                    speakLocals, files, synthCalls >>

\* variant: QUIT clears the flag before leaving the loop
Quit_ClearsRunning ==
    /\ pc = "dispatch"
    /\ line # <<>>
    /\ IsQuit(line)
    /\ running' = FALSE
    /\ pc' = "done"
    /\ handled' = Append(handled, [line |-> line, resp |-> "none"])
    /\ UNCHANGED << voices, voice, speed, stdin, pos, stdout, line, resp,
                    speakLocals, files, synthCalls >>

\* QUIT : break
Quit ==
    /\ pc = "dispatch"
    /\ line # <<>>
    /\ IsQuit(line)
    /\ pc' = "done"
    /\ handled' = Append(handled, [line |-> line, resp |-> "none"])
    /\ UNCHANGED << voices, session, stdin, pos, stdout, line, resp,
                    speakLocals, files, synthCalls >>

\* variant: the module-level default voice is passed instead of self.voice
Create_DefaultVoice ==
    /\ pc = "create"
    /\ synthCalls' = Append(synthCalls,
                            [text |-> text, voice |-> default_voice,
                             speed |-> speed])
    /\ \E ok \in BOOLEAN :
         IF ok THEN pc' = "write" /\ ret' = ret
               ELSE pc' = "return" /\ ret' = "False"
    /\ UNCHANGED << voices, session, stdin, pos, stdout, line, resp, text,
                    tmp, idx, result, files, attempts, handled >>

\* speak(): self.kokoro.create(text, voice=self.voice, speed=self.speed),
\* which returns samples or raises
Create ==
    /\ pc = "create"
    /\ synthCalls' = Append(synthCalls,
                            [text |-> text, voice |-> voice, speed |-> speed])
    /\ \E ok \in BOOLEAN :
         IF ok THEN pc' = "write" /\ ret' = ret
               ELSE pc' = "return" /\ ret' = "False"
    /\ UNCHANGED << voices, session, stdin, pos, stdout, line, resp, text,
                    tmp, idx, result, files, attempts, handled >>

\* speak(): NamedTemporaryFile(delete=False) creates the file, then
\* sf.write fills it or raises
WriteTemp ==
    /\ pc = "write"
    /\ files' = files + 1
    /\ tmp' = "exists"
    /\ \E ok \in BOOLEAN :
         IF ok THEN pc' = "play" /\ ret' = ret
               ELSE pc' = "return" /\ ret' = "False"
    /\ UNCHANGED << voices, session, stdin, pos, stdout, line, resp, text,
                    idx, result, attempts, synthCalls, handled >>

\* variant: no break on exit status zero
RunPlayer_NoBreak ==
    /\ pc = "play"
    /\ \E o \in PlayerOutcomes :
         /\ attempts' = Append(attempts, << audio_players[idx], o >>)
         /\ result' = IF o \in {"zero", "nonzero"} THEN o ELSE result
         /\ CASE o = "oserror" ->
                   pc' = "return" /\ idx' = idx /\ ret' = "False"
              [] OTHER ->
                   IF idx < Len(audio_players)
                   THEN pc' = "play" /\ idx' = idx + 1 /\ ret' = ret
                   ELSE pc' = "cleanup" /\ idx' = idx /\ ret' = ret
    /\ UNCHANGED << voices, session, stdin, pos, stdout, line, resp, text,
                    tmp, files, synthCalls, handled >>

\* variant: subprocess.run without timeout, a hung player never returns
RunPlayer_NoTimeout ==
    /\ pc = "play"
    /\ \E o \in PlayerOutcomes :
         /\ attempts' = Append(attempts, << audio_players[idx], o >>)
         /\ result' = IF o \in {"zero", "nonzero"} THEN o ELSE result
         /\ CASE o = "zero" ->
                   pc' = "cleanup" /\ idx' = idx /\ ret' = ret
              [] o = "oserror" ->
                   pc' = "return" /\ idx' = idx /\ ret' = "False"
              [] o = "timeout" ->
                   pc' = "hung" /\ idx' = idx /\ ret' = ret
              [] OTHER ->
                   IF idx < Len(audio_players)
                   THEN pc' = "play" /\ idx' = idx + 1 /\ ret' = ret
                   ELSE pc' = "cleanup" /\ idx' = idx /\ ret' = ret
    /\ UNCHANGED << voices, session, stdin, pos, stdout, line, resp, text,
                    tmp, files, synthCalls, handled >>

\* speak(): one iteration of the loop over audio_players
RunPlayer ==
    /\ pc = "play"
    /\ \E o \in PlayerOutcomes :
         /\ attempts' = Append(attempts, << audio_players[idx], o >>)
         /\ result' = IF o \in {"zero", "nonzero"} THEN o ELSE result
         /\ CASE o = "zero" ->
                   pc' = "cleanup" /\ idx' = idx /\ ret' = ret
              [] o = "oserror" ->
                   pc' = "return" /\ idx' = idx /\ ret' = "False"
              [] OTHER ->
                   IF idx < Len(audio_players)
                   THEN pc' = "play" /\ idx' = idx + 1 /\ ret' = ret
                   ELSE pc' = "cleanup" /\ idx' = idx /\ ret' = ret
    /\ UNCHANGED << voices, session, stdin, pos, stdout, line, resp, text,
                    tmp, files, synthCalls, handled >>

\* variant: result.returncode is read before os.unlink, so the
\* AttributeError on result None skips the unlink
Cleanup_SkipsWhenNoResult ==
    /\ pc = "cleanup"
    /\ files' = IF result = "None" THEN files ELSE files - 1
    /\ tmp' = IF result = "None" THEN tmp ELSE "deleted"
    /\ ret' = ReturnValue(result)
    /\ pc' = "return"
    /\ UNCHANGED << voices, session, stdin, pos, stdout, line, resp, text,
                    idx, result, attempts, synthCalls, handled >>

\* speak(): os.unlink(tmp_path), then the test of result.returncode
Cleanup ==
    /\ pc = "cleanup"
    /\ files' = files - 1
    /\ tmp' = "deleted"
    /\ ret' = ReturnValue(result)
    /\ pc' = "return"
    /\ UNCHANGED << voices, session, stdin, pos, stdout, line, resp, text,
                    idx, result, attempts, synthCalls, handled >>

\* speak() returns to run(), which ignores the value; print("OK") is next
SpeakReturn ==
    /\ pc = "return"
    /\ resp' = SpeakResponse(ret)
    /\ pc' = "respond"
    /\ UNCHANGED << voices, session, stdin, pos, stdout, line, speakLocals,
                    files, synthCalls, handled >>

\* print(resp, flush=True), back to the head of the while loop; what is
\* left of the speak() call (frame, discarded return value) is dropped
Respond ==
    /\ pc = "respond"
    /\ stdout' = Append(stdout, resp)
    /\ handled' = Append(handled, [line |-> line, resp |-> resp])
    /\ resp' = "none"
    /\ EnterSpeak(<<>>)
    /\ pc' = "loop"
    /\ UNCHANGED << voices, session, stdin, pos, line, files, synthCalls >>

\* variant: the handler only clears the flag and returns
Signal_FlagOnly ==
    /\ pc \notin {"done", "exited"}
    /\ running
    /\ running' = FALSE
    /\ UNCHANGED << voices, voice, speed, stdin, pos, stdout, pc, line, resp,
                    speakLocals, files, synthCalls, handled >>

\* SIGTERM / SIGINT: handle_shutdown sets running False and sys.exit(0);
\* SystemExit is not an Exception, so no except clause stops it
Signal ==
    /\ pc \notin {"done", "exited"}
    /\ running' = FALSE
    /\ pc' = "exited"
    /\ UNCHANGED << voices, voice, speed, stdin, pos, stdout, line, resp,
                    speakLocals, files, synthCalls, handled >>

Next ==
    \/ ReadLine
    \/ ReadEOF
    \/ SkipEmpty
    \/ SpeakCmd
    \/ SpeakDefault
    \/ SetVoice
    \/ SetSpeed
    \/ Quit
    \/ Create
    \/ WriteTemp
    \/ RunPlayer
    \/ Cleanup
    \/ SpeakReturn
    \/ Respond
    \/ Signal

Spec == Init /\ [][Next]_vars

\* input streams for the runs without signal: one line of each kind
\* (blank, prefixed speak, default speak, rejected VOICE:, rejected SPEED:,
\* QUIT) drawn freely, and the scenarios
LiveLines ==
    { NL(<<" ">>),
      NL(<<" ">> \o SPEAK_ \o <<" ">> \o hi \o <<" ">>),
      NL(<<"s", "p", "e", "a", "k", ":">> \o hi),
      NL(VOICE_ \o nonexistent),
      NL(SPEED_ \o <<"a", "b", "c">>),
      NL(QUIT_) }

LiveStreams == SeqsUpTo(LiveLines, MaxLines) \cup Scenarios

InitLive == Init /\ stdin \in LiveStreams

\* the process when no signal is delivered
NextNoSignal ==
    \/ ReadLine
    \/ ReadEOF
    \/ SkipEmpty
    \/ SpeakCmd
    \/ SpeakDefault
    \/ SetVoice
    \/ SetSpeed
    \/ Quit
    \/ Create
    \/ WriteTemp
    \/ RunPlayer
    \/ Cleanup
    \/ SpeakReturn
    \/ Respond

\* A sequential program takes its next step: readline returns (the stream
\* holds its lines or is at end of input), kokoro.create is taken to
\* return or raise, and subprocess.run returns or raises within its
\* timeout of 10 seconds.
FairSpec == InitLive /\ [][NextNoSignal]_vars /\ WF_vars(NextNoSignal)

TypeOK ==
    /\ voices \in VoiceSets
    /\ running \in BOOLEAN
    /\ pos \in 0..Len(stdin)
    /\ pc \in {"loop", "dispatch", "create", "write", "play", "cleanup",
               "return", "respond", "done", "exited"}
    /\ resp \in {"none", "OK", "ERROR"}
    /\ tmp \in {"none", "exists", "deleted"}
    /\ idx \in 1..Len(audio_players)
    /\ result \in {"None", "zero", "nonzero"}
    /\ ret \in {"none", "True", "False"}
    /\ files \in Nat

\* ----------------------------------------------------------------- claims
\* a raw input line that calls for a response: non-empty after trimming
\* and not the QUIT command
Answerable(raw) == strip(raw) # <<>> /\ strip(raw) # QUIT_

AnswerCount(n) == Cardinality({i \in 1..n : Answerable(stdin[i])})

InFlight ==
    pc \in {"dispatch", "create", "write", "play", "cleanup", "return",
            "respond"}

\* a stripped line that is a speak command, prefixed or default
IsSpeakLine(l) ==
    /\ l # <<>>
    /\ ~startswith(l, VOICE_)
    /\ ~startswith(l, SPEED_)
    /\ l # QUIT_

Failed == {"nonzero", "notfound", "timeout"}

\* C1: the number of lines written to stdout equals the number of
\* non-empty, non-QUIT lines handled so far (the line in flight not yet
\* counted), each written line is OK or ERROR, and nothing is written for
\* an empty line or for QUIT.
C1_OneResponsePerLine ==
    /\ pc \in {"loop", "done"} => Len(stdout) = AnswerCount(pos)
    /\ InFlight => Len(stdout) = AnswerCount(pos - 1)
    /\ pc = "exited" =>
         Len(stdout) \in {AnswerCount(pos - 1), AnswerCount(pos)}
    /\ \A i \in DOMAIN stdout : stdout[i] \in {"OK", "ERROR"}
    /\ \A i \in DOMAIN handled :
         handled[i].resp = "none" <=>
            (handled[i].line = <<>> \/ handled[i].line = QUIT_)

C1_Witness ==
    /\ pc = "done"
    /\ Len(stdout) >= 1
    /\ Len(stdout) < pos
    /\ \E i \in DOMAIN stdout : stdout[i] = "ERROR"

\* C2: handling a VOICE:<name> line sets the session voice to the trimmed
\* name and chooses OK exactly when the name is in the known voice set;
\* otherwise the voice is unchanged and the response is ERROR; the chosen
\* response is the line printed.
C2_VoiceCommand ==
    [][ /\ (pc = "dispatch" /\ startswith(line, VOICE_) /\ pc' # "exited") =>
             /\ pc' = "respond"
             /\ IF strip(slice6(line)) \in voices
                THEN voice' = strip(slice6(line)) /\ resp' = "OK"
                ELSE voice' = voice /\ resp' = "ERROR"
        /\ (pc = "respond" /\ pc' # "exited") =>
             stdout' = Append(stdout, resp) /\ voice' = voice
      ]_vars

C2_Witness ==
    \E i, j \in DOMAIN handled :
       /\ i < j
       /\ startswith(handled[i].line, VOICE_) /\ handled[i].resp = "OK"
       /\ startswith(handled[j].line, VOICE_) /\ handled[j].resp = "ERROR"
       /\ voice = am_adam

\* C3: handling a SPEED:<token> line with a numeric token sets the session
\* speed to the token's value and chooses OK; with a non-numeric token the
\* speed is unchanged and the response is ERROR (SPEED:1.5 gives 1.5,
\* SPEED: 2.50 gives 2.5, SPEED:abc gives ERROR); the chosen response is
\* the line printed.
C3_SpeedCommand ==
    [][ /\ (pc = "dispatch" /\ startswith(line, SPEED_) /\ pc' # "exited") =>
             /\ pc' = "respond"
             /\ IF IsNumeric(strip(slice6(line)))
                THEN speed' = ParseFloat(strip(slice6(line))) /\ resp' = "OK"
                ELSE speed' = speed /\ resp' = "ERROR"
             /\ line = SPEED_ \o <<"1", ".", "5">> =>
                  speed' = [num |-> 15, exp |-> 1] /\ resp' = "OK"
             /\ line = SPEED_ \o <<" ", "2", ".", "5", "0">> =>
                  speed' = [num |-> 25, exp |-> 1] /\ resp' = "OK"
             /\ line = SPEED_ \o <<"a", "b", "c">> =>
                  speed' = speed /\ resp' = "ERROR"
        /\ (pc = "respond" /\ pc' # "exited") =>
             stdout' = Append(stdout, resp) /\ speed' = speed
      ]_vars

C3_Witness ==
    \E i, j \in DOMAIN handled :
       /\ i < j
       /\ handled[i].line = SPEED_ \o <<"1", ".", "5">>
       /\ handled[i].resp = "OK"
       /\ handled[j].line = SPEED_ \o <<"a", "b", "c">>
       /\ handled[j].resp = "ERROR"
       /\ speed = [num |-> 15, exp |-> 1]

\* C4: the response to a speak command (SPEAK:<text> or a default line)
\* is OK, never ERROR, whatever speak() returned.
C4_SpeakAlwaysOK ==
    /\ \A i \in DOMAIN handled :
         IsSpeakLine(handled[i].line) => handled[i].resp = "OK"
    /\ (pc = "respond" /\ IsSpeakLine(line)) => resp = "OK"

C4_Witness ==
    /\ pc = "respond"
    /\ IsSpeakLine(line)
    /\ ret = "False"
    /\ Len(attempts) = 3
    /\ resp = "OK"
    /\ Len(handled) = 1
    /\ IsSpeakLine(handled[1].line)
    /\ handled[1].resp = "OK"
    /\ Len(synthCalls) = 2
    /\ files = 0

\* C5: once a line equal to QUIT after trimming has been read it is the
\* last line ever read; the process is dispatching it, has left the loop,
\* or was signalled; nothing is printed for it and no speak step runs.
C5_QuitEndsLoop ==
    \A i \in 1..pos :
       strip(stdin[i]) = QUIT_ =>
          /\ i = pos
          /\ pc \in {"dispatch", "done", "exited"}
          /\ Len(stdout) = AnswerCount(pos - 1)
          /\ Len(handled) <= pos
          /\ \A k \in DOMAIN handled :
               (k = pos) => handled[k].resp = "none"

C5_Witness ==
    /\ pc = "done"
    /\ pos >= 1
    /\ pos < Len(stdin)
    /\ strip(stdin[pos]) = QUIT_
    /\ Answerable(stdin[pos + 1])

\* C6: a line is empty after trimming exactly when it holds only
\* whitespace; handling it prints nothing, calls neither the Synthesizer
\* nor a player, leaves voice, speed and running unchanged, and goes back
\* to the head of the loop with running still true.
C6_EmptyLineIgnored ==
    [][ /\ (pc = "loop" /\ pc' = "dispatch") =>
             (line' = <<>> <=>
                \A k \in DOMAIN stdin[pos'] : stdin[pos'][k] \in Whitespace)
        /\ (pc = "dispatch" /\ line = <<>> /\ pc' # "exited") =>
             /\ pc' = "loop"
             /\ running'
             /\ UNCHANGED << stdout, voice, speed, running, synthCalls,
                             attempts, files, tmp, pos >>
      ]_vars

C6_Witness ==
    /\ Len(handled) = 2
    /\ stdin[1] = NL(<<" ">>)
    /\ handled[1].line = <<>>
    /\ handled[1].resp = "none"
    /\ handled[2].resp = "OK"
    /\ Len(stdout) = 1

\* C7: when speak() is over and every player attempted ended in exit
\* zero, non-zero exit, not-found or timeout, the temporary file of the
\* call has been deleted; with all three candidates not found the file is
\* deleted and the value returned is False.
C7_TempFileDeleted ==
    (/\ pc \in {"return", "respond"}
     /\ attempts # <<>>
     /\ \A i \in DOMAIN attempts :
          attempts[i][2] \in {"zero", "nonzero", "notfound", "timeout"})
    => /\ tmp = "deleted"
       /\ (Len(attempts) = 3 /\ \A i \in DOMAIN attempts :
                                   attempts[i][2] = "notfound")
          => ret = "False"

C7_Witness ==
    /\ pc = "return"
    /\ Len(attempts) = 3
    /\ \A i \in DOMAIN attempts : attempts[i][2] = "notfound"
    /\ tmp = "deleted"
    /\ files = 0
    /\ ret = "False"

\* C8: speak() returns True exactly when some player attempted in the
\* call exited with status zero.
C8_TrueIffZeroExit ==
    pc = "return" =>
       (ret = "True" <=> \E i \in DOMAIN attempts : attempts[i][2] = "zero")

C8_Witness ==
    /\ pc = "return"
    /\ Len(attempts) = 3
    /\ attempts[1][2] = "nonzero"
    /\ attempts[2][2] = "notfound"
    /\ attempts[3][2] = "timeout"
    /\ ret = "False"

\* C9: within one speak() call the players are attempted in the order
\* pw-play, paplay, aplay, each at most once, and every attempt but the
\* last ended in not-found, timeout or a non-zero exit (none follows an
\* exit with status zero).
C9_PlayerOrder ==
    /\ Len(attempts) <= 3
    /\ \A i \in DOMAIN attempts :
         /\ attempts[i][1] = << "pw-play", "paplay", "aplay" >>[i]
         /\ i < Len(attempts) => attempts[i][2] \in Failed

C9_Witness ==
    /\ pc = "return"
    /\ Len(attempts) = 2
    /\ attempts[1] = << "pw-play", "timeout" >>
    /\ attempts[2] = << "paplay", "zero" >>
    /\ ret = "True"

\* C10: in every reachable state the session voice is a member of the
\* Synthesizer's known voice set.
C10_VoiceAlwaysKnown == voice \in voices

\* C11: the process leaves the loop only at end of input, on the QUIT
\* line or on a signal; no failing line (unknown voice, non-numeric speed,
\* synthesis error, failure of every player) ends it: every line in flight
\* moves on towards its response, and after the response the process is
\* at the head of the loop with running true and the next line unread.
C11_FailuresDoNotTerminate ==
    [][ /\ (pc \notin {"done", "exited"} /\ pc' \in {"done", "exited"}) =>
             \/ ~running'
             \/ pc = "loop" /\ pos = Len(stdin)
             \/ pc = "dispatch" /\ line = QUIT_
        /\ (pc = "respond" /\ running') =>
             /\ pc' = "loop"
             /\ pos' = pos
             /\ stdout' = Append(stdout, resp)
        /\ (pc = "loop" /\ running' /\ pos < Len(stdin)) =>
             /\ pc' = "dispatch"
             /\ pos' = pos + 1
             /\ line' = strip(stdin[pos + 1])
      ]_vars

C11_Witness ==
    /\ Len(handled) = 4
    /\ handled[2].line = VOICE_ \o nonexistent
    /\ handled[2].resp = "ERROR"
    /\ handled[3].line = SPEED_ \o <<"a", "b", "c">>
    /\ handled[3].resp = "ERROR"
    /\ handled[4].line = hi
    /\ handled[4].resp = "OK"
    /\ files = 1
    /\ pc = "done"
    /\ running

\* the lines of the model that resemble a command without being one
LookAlikes ==
    { <<"s", "p", "e", "a", "k", ":">> \o hi,
      <<"v", "o", "i", "c", "e", ":">> \o am_adam,
      <<"q", "u", "i", "t">>,
      QUIT_ \o <<" ">> \o <<"n", "o", "w">> }

\* C12: a non-empty line that starts with none of the upper-case prefixes
\* SPEAK:, VOICE:, SPEED: and is not exactly QUIT (speak:hi, voice:am_adam,
\* quit, QUIT now) is passed whole to speak(), is answered OK, changes
\* neither voice nor speed and does not end the loop.
C12_CaseSensitivePrefixes ==
    [][ /\ (/\ pc = "dispatch"
            /\ running'
            /\ \/ line \in LookAlikes
               \/ /\ line # <<>>
                  /\ ~startswith(line, SPEAK_)
                  /\ ~startswith(line, VOICE_)
                  /\ ~startswith(line, SPEED_)
                  /\ line # QUIT_) =>
             /\ pc' = "create"
             /\ text' = line
             /\ UNCHANGED << voice, speed, stdout >>
        /\ (pc = "create" /\ running') =>
             /\ Len(synthCalls') = Len(synthCalls) + 1
             /\ synthCalls'[Len(synthCalls')].text = text
        /\ (pc = "respond" /\ running' /\ line \in LookAlikes) =>
             /\ stdout' = Append(stdout, "OK")
             /\ pc' = "loop"
             /\ UNCHANGED << voice, speed >>
      ]_vars

C12_Witness ==
    /\ Len(handled) = 2
    /\ handled[1] = [line |-> QUIT_ \o <<" ">> \o <<"n", "o", "w">>,
                     resp |-> "OK"]
    /\ synthCalls[1].text = QUIT_ \o <<" ">> \o <<"n", "o", "w">>
    /\ handled[2] = [line |-> QUIT_, resp |-> "none"]
    /\ voice = default_voice
    /\ speed = default_speed

\* C13: a signal clears running and puts the process in its exited state
\* in the same step, with nothing printed, read, synthesized, played or
\* deleted by that step; once exited the process takes no further step,
\* so the line in flight stays unanswered and no later line is read.
C13_SignalTerminates ==
    [][ /\ (running /\ ~running') =>
             /\ pc' = "exited"
             /\ UNCHANGED << stdout, pos, handled, synthCalls, attempts,
                             files, tmp, voice, speed >>
        /\ (pc # "exited" /\ pc' = "exited") => (running /\ ~running')
        /\ pc = "exited" => UNCHANGED vars
      ]_vars

C13_Witness ==
    /\ pc = "exited"
    /\ ~running
    /\ tmp = "exists"
    /\ Len(attempts) = 1
    /\ attempts[1][2] = "timeout"
    /\ pos = 1
    /\ Len(stdin) = 2
    /\ Answerable(stdin[1])
    /\ Answerable(stdin[2])
    /\ stdout = <<>>
    /\ handled = <<>>

\* the session voice after the first n lines of the stream: the trimmed
\* identifier of the last VOICE: line among them that names a known voice
RECURSIVE ExpectedVoice(_)
ExpectedVoice(n) ==
    IF n = 0 THEN af_bella
    ELSE LET l == strip(stdin[n]) IN
         IF startswith(l, VOICE_) /\ strip(slice6(l)) \in voices
         THEN strip(slice6(l))
         ELSE ExpectedVoice(n - 1)

\* the session speed after the first n lines of the stream: the value of
\* the last SPEED: line among them with a numeric token
RECURSIVE ExpectedSpeed(_)
ExpectedSpeed(n) ==
    IF n = 0 THEN [num |-> 1, exp |-> 0]
    ELSE LET l == strip(stdin[n]) IN
         IF startswith(l, SPEED_) /\ IsNumeric(strip(slice6(l)))
         THEN ParseFloat(strip(slice6(l)))
         ELSE ExpectedSpeed(n - 1)

\* number of lines whose command has taken effect (a line cut short by a
\* signal may or may not have taken effect)
Applied == IF pc = "dispatch" THEN pos - 1 ELSE pos

\* C14: the session voice is the identifier of the most recent processed
\* VOICE: line naming a known voice (af_bella if none) and the session
\* speed the value of the most recent processed numeric SPEED: line (1.0
\* if none); SPEAK, VOICE:af_bella, SPEED:1.5, QUIT ends with output
\* OK, OK, OK, voice af_bella and speed 1.5; a lone VOICE:zz ends with
\* output ERROR and the default voice.  A line cut short by a signal
\* counts as processed only if its assignment was reached.
C14_LastAcceptedWins ==
    /\ pc # "exited" =>
         /\ voice = ExpectedVoice(Applied)
         /\ speed = ExpectedSpeed(Applied)
    /\ pc = "exited" =>
         \E n \in {pos - 1, pos} :
            /\ n >= 0
            /\ voice = ExpectedVoice(n)
            /\ speed = ExpectedSpeed(n)
    /\ (/\ pc = "done"
        /\ af_bella \in voices
        /\ stdin = << NL(SPEAK_ \o hi), NL(VOICE_ \o af_bella),
                      NL(SPEED_ \o <<"1", ".", "5">>), NL(QUIT_) >>)
       => /\ stdout = << "OK", "OK", "OK" >>
          /\ voice = af_bella
          /\ speed = [num |-> 15, exp |-> 1]
    /\ (pc = "done" /\ stdin = << NL(VOICE_ \o nonexistent) >>)
       => /\ stdout = << "ERROR" >>
          /\ voice = af_bella

C14_Witness ==
    /\ pc = "done"
    /\ stdin = << NL(VOICE_ \o am_adam), NL(VOICE_ \o nonexistent),
                  NL(SPEED_ \o <<"a", "b", "c">>), NL(hi) >>
    /\ stdout = << "OK", "ERROR", "ERROR", "OK" >>
    /\ voice = am_adam
    /\ speed = [num |-> 1, exp |-> 0]

\* C15: by the time the response for a speak line is due, and from then
\* on, the temporary file of that call has been deleted and no temporary
\* file is left on disk, whatever failed in between.
C15_TempFileNeverOutlives ==
    pc \in {"respond", "loop", "done"} => (tmp # "exists" /\ files = 0)

\* C16: the kokoro.create call made for the line in flight carries the
\* text of the call and the voice and speed set by the most recent
\* accepted VOICE: and SPEED: lines before it (the defaults if none);
\* rejected ones leave no trace in it.
C16_SynthUsesSessionState ==
    pc \in {"write", "play", "cleanup", "return", "respond"}
      /\ IsSpeakLine(line) =>
         /\ synthCalls # <<>>
         /\ synthCalls[Len(synthCalls)] =
              [text  |-> text,
               voice |-> ExpectedVoice(pos - 1),
               speed |-> ExpectedSpeed(pos - 1)]

C16_Witness ==
    /\ pc = "write"
    /\ pos = 4
    /\ stdin[2] = NL(VOICE_ \o nonexistent)
    /\ stdin[3] = NL(SPEED_ \o <<"a", "b", "c">>)
    /\ synthCalls = << [text |-> hi, voice |-> am_adam,
                        speed |-> [num |-> 1, exp |-> 0]] >>

\* C17 as claimed: in the state reached after a QUIT line has been
\* handled, running is false.
C17_QuitClearsRunning ==
    (/\ pc = "done"
     /\ pos >= 1
     /\ Len(handled) = pos
     /\ handled[pos].line = QUIT_) => ~running

\* C17 as amended: running is false exactly when a signal has ended the
\* process; after QUIT (and after end of input) the loop is over with
\* running still true.
C17_RunningFalseOnlyOnSignal ==
    /\ running <=> pc # "exited"
    /\ (pc = "done" /\ pos >= 1 /\ strip(stdin[pos]) = QUIT_) => running

C17_Witness ==
    /\ pc = "done"
    /\ pos = 1
    /\ Len(stdin) = 2
    /\ handled = << [line |-> QUIT_, resp |-> "none"] >>
    /\ running

\* C18 as claimed: in every reachable state the session speed is greater
\* than zero.
C18_SpeedPositive == speed.num > 0

\* the values of the numeric SPEED: tokens among the first n lines
ParsedSpeeds(n) ==
    { ParseFloat(strip(slice6(strip(stdin[i])))) :
        i \in { k \in 1..n : /\ startswith(strip(stdin[k]), SPEED_)
                             /\ IsNumeric(strip(slice6(strip(stdin[k])))) } }

\* C18 as amended: the session speed is 1.0 or the value of a numeric
\* SPEED: token read so far, with no test of its sign: SPEED:-1 and
\* SPEED:0 are answered OK and leave the speed at -1 and 0.
C18_SpeedIsLastParsed ==
    /\ speed \in {[num |-> 1, exp |-> 0]} \cup ParsedSpeeds(pos)
    /\ (pc = "respond" /\ line = SPEED_ \o <<"-", "1">>) =>
         (speed = [num |-> 0 - 1, exp |-> 0] /\ resp = "OK")
    /\ (pc = "respond" /\ line = SPEED_ \o <<"0">>) =>
         (speed = [num |-> 0, exp |-> 0] /\ resp = "OK")

C18_Witness ==
    /\ pc = "loop"
    /\ Len(handled) = 1
    /\ handled[1] = [line |-> SPEED_ \o <<"-", "1">>, resp |-> "OK"]
    /\ stdout = << "OK" >>
    /\ speed.num < 0

\* C19: with no signal and a Synthesizer that returns, a speak call makes
\* at most three player invocations, no candidate twice, and every
\* non-empty, non-QUIT line read is eventually answered, the process
\* being back at the head of the loop with one response per such line.
C19_EveryLineAnswered ==
    /\ [](/\ Len(attempts) <= 3
          /\ \A i, j \in DOMAIN attempts :
               attempts[i][1] = attempts[j][1] => i = j)
    /\ (InFlight /\ Answerable(stdin[pos]))
         ~> (pc = "loop" /\ Len(stdout) = AnswerCount(pos))

C19_Witness ==
    /\ pc = "respond"
    /\ pos = 2
    /\ IsSpeakLine(line)
    /\ Len(attempts) = 3
    /\ \A i \in DOMAIN attempts : attempts[i][2] = "timeout"
    /\ resp = "OK"
    /\ Len(handled) = 1
    /\ IsSpeakLine(handled[1].line)
    /\ stdout = << "OK" >>

\* C20: no step of a speak command changes voice or speed; no step of a
\* VOICE: command changes speed, and no step of a SPEED: command changes
\* voice; neither of the two calls kokoro.create, runs a player or
\* touches a temporary file.
C20_CommandsTouchOwnField ==
    [][ /\ (\/ pc \in {"create", "write", "play", "cleanup", "return"}
            \/ pc \in {"dispatch", "respond"} /\ IsSpeakLine(line)) =>
             UNCHANGED << voice, speed >>
        /\ (pc \in {"dispatch", "respond"} /\ startswith(line, VOICE_)) =>
             /\ UNCHANGED << speed, synthCalls, attempts, files, tmp >>
             /\ pc' \in {"respond", "loop", "exited"}
        /\ (pc \in {"dispatch", "respond"} /\ startswith(line, SPEED_)) =>
             /\ UNCHANGED << voice, synthCalls, attempts, files, tmp >>
             /\ pc' \in {"respond", "loop", "exited"}
      ]_vars

C20_Witness ==
    /\ pc = "loop"
    /\ Len(handled) = 2
    /\ handled[1] = [line |-> SPEED_ \o <<"1", ".", "5">>, resp |-> "OK"]
    /\ handled[2] = [line |-> VOICE_ \o <<" ">> \o am_adam, resp |-> "OK"]
    /\ speed = [num |-> 15, exp |-> 1]
    /\ voice = am_adam
    /\ synthCalls = <<>>
    /\ files = 0

====
